---------------------------- MODULE Spec2Model ----------------------------
(***************************************************************************)
(* A model of the intermediate-python-web-scraper repository:              *)
(*   src/web_scraper.py  Fetcher, extract_items, save_items, summarize,    *)
(*                       main (the CLI run)                                *)
(*   src/parsers.py      HTMLParser.extract_by_selector_attr,              *)
(*                       HTMLParser.extract_table                          *)
(*   src/analysis.py     DataAggregator.filter_data,                       *)
(*                       StatisticalAnalyzer.get_statistics,               *)
(*                       DataValidator.remove_duplicates,                  *)
(*                       DataExporter.to_csv, DataExporter.to_json         *)
(*                                                                         *)
(* Spec        one CLI run: main() with the Fetcher's robots gate, the     *)
(*             retrying transport, extraction, save and summary.           *)
(* SpecExtract extract_items / extract_by_selector_attr on bounded inputs. *)
(* SpecTable   extract_table on bounded tables.                            *)
(* SpecRecords remove_duplicates / filter_data on bounded record lists.    *)
(* SpecStats   get_statistics on bounded record lists.                     *)
(* SpecExport  DataExporter.to_csv / to_json, repeated on one path.        *)
(***************************************************************************)
EXTENDS Integers, Sequences, FiniteSets, TLC

VARIABLES
    pc,          \* position of main(): start, constructed, requesting, ...
    args,        \* the parsed command line (argparse namespace)
    robots,      \* Fetcher._robots: None or the RobotFileParser's state
    robotsLoad,  \* what rp.read() met: none, raised, http401, ..., parsed
    robotsReads, \* number of rp.read() calls made so far
    url,         \* the local `url` of Fetcher.get after urljoin
    gate,        \* answers of Fetcher.allowed: sequence of [url, allowed]
    requests,    \* number of HTTP requests issued by the call of Fetcher.get
    requested,   \* the URLs they went to
    reqUrl,      \* the URL the next request of session.get goes to
    lastResp,    \* status and Retry-After of the latest response, None before
    allForced,   \* every response so far had a status of the forcelist
    retries,     \* urllib3 Retry.total left for the current request chain
    redirects,   \* redirect responses followed so far (len(resp.history))
    resp,        \* the Response returned by session.get, None before
    err,         \* the exception that left main(), "" while none
    items,       \* the list returned by extract_items in main()
    outFile,     \* the file at args.out; in SpecExport the file at file_path
    printed,     \* the summary written to stdout, None before
    input,       \* arguments of the function applied by the function specs
    op,          \* the function that has been applied, "none" before
    ret          \* what it returned

transport == <<requests, requested, reqUrl, lastResp, allForced, retries, redirects>>

fnVars == <<input, op, ret>>

mainVars == <<pc, args, robots, robotsLoad, robotsReads, url, gate, transport, resp,
              err, items, outFile, printed>>

vars == <<mainVars, fnVars>>

(***************************************************************************)
(* Bounds of the model.                                                    *)
(***************************************************************************)
MaxRedirects == 1      \* redirect limit of the session (requests: 30)
MaxNodes == 2          \* elements of a document given to extract_items
MaxRows == 2           \* body rows of a table
MaxCells == 2          \* cells of a table row
MaxRecords == 3        \* records of a record list
MaxStatRecords == 3    \* records of a record list given to get_statistics
MaxExportRecords == 2  \* records of a list given to to_csv / to_json
MaxExports == 2        \* exports that write to the one path

(***************************************************************************)
(* Python values.  Optional[T] is None or Some(x).  A string is kept in    *)
(* the form urlparse decomposes it into (scheme, netloc, path), so that    *)
(* urljoin and urlparse(...).netloc are computed, not assumed.             *)
(***************************************************************************)
None == <<>>

Some(x) == <<x>>

Str(scheme, netloc, path) == [scheme |-> scheme, netloc |-> netloc, path |-> path]

EmptyStr == Str("", "", "")

\* bool(s) of a Python string
Truthy(s) == s # EmptyStr

\* bool(o) of an Optional[str]
TruthyOpt(o) == o # None /\ Truthy(o[1])

RootedPaths == {"/", "/p", "/private", "/x"}

\* urllib.parse.urljoin(base, ref), for references that are absolute URLs,
\* network-path references, rooted paths or empty
Urljoin(base, ref) ==
    IF ~Truthy(base) THEN ref
    ELSE IF ~Truthy(ref) THEN base
    ELSE IF ref.scheme # "" THEN ref
    ELSE IF ref.netloc # "" THEN Str(base.scheme, ref.netloc, ref.path)
    ELSE IF ref.path \in RootedPaths THEN Str(base.scheme, base.netloc, ref.path)
    ELSE Str(base.scheme, base.netloc, "/" \o ref.path)


Text(s) == Str("", "", s)

\* urlparse(target).netloc
Netloc(u) == u.netloc

SeqsUpTo(S, n) == UNION {[1..k -> S] : k \in 0..n}

RECURSIVE SeqMap(_, _)
SeqMap(F(_), s) ==
    IF s = <<>> THEN <<>> ELSE <<F(Head(s))>> \o SeqMap(F, Tail(s))

RECURSIVE CountIf(_, _)
CountIf(P(_), s) ==
    IF s = <<>> THEN 0
    ELSE (IF P(Head(s)) THEN 1 ELSE 0) + CountIf(P, Tail(s))

Range(s) == {s[i] : i \in DOMAIN s}

(***************************************************************************)
(* Documents.  A parsed document is the sequence of its elements in        *)
(* document order; `sel` says whether the selector of the call matches     *)
(* the element, `attrs` gives its attributes (None: the element lacks      *)
(* it), `text` its text content.                                           *)
(***************************************************************************)
SiteUrl == Str("https", "example.com", "/")

PrivateUrl == Str("https", "example.com", "/private")

OtherUrl == Str("https", "other.org", "/x")

AttrNames == {"href", "title"}

HrefValues == {None, Some(Text("/p")), Some(OtherUrl)}

TitleValues == {None, Some(Text("t"))}

RawTexts == {Text(""), Text(" x ")}

Nodes ==
    {[sel |-> m, attrs |-> [a \in AttrNames |-> IF a = "href" THEN h ELSE t], text |-> x] :
        m \in BOOLEAN, h \in HrefValues, t \in TitleValues, x \in RawTexts}

\* soup.select(selector): the matching elements, in document order
Select(html) == SelectSeq(html, LAMBDA n : n.sel)

\* el.get(attr): the attribute's value, None when the element lacks it
ElGet(el, name) ==
    IF name.path \in AttrNames /\ name = Text(name.path) THEN el.attrs[name.path] ELSE None

\* el.get_text(strip=True)
GetTextStrip(el) == IF el.text = Text(" x ") THEN Text("x") ELSE el.text

ExtractedItem(source_url, text, attr) ==
    [source_url |-> source_url, text |-> text, attr |-> attr]

\* a variant of the loop body that fills text in attribute mode as well
ExtractOneWithText(el, base_url, attr) ==
    IF TruthyOpt(attr)
    THEN ExtractedItem(base_url, Some(GetTextStrip(el)), ElGet(el, attr[1]))
    ELSE ExtractedItem(base_url, Some(GetTextStrip(el)), None)

\* the loop body of extract_items for one matched element
ExtractOne(el, base_url, attr) ==
    IF TruthyOpt(attr)
    THEN LET val == ElGet(el, attr[1])
             res == IF val # None /\ attr[1] \in {Text("href"), Text("src")}
                    THEN Some(Urljoin(base_url, val[1]))
                    ELSE val
         IN ExtractedItem(base_url, None, res)
    ELSE ExtractedItem(base_url, Some(GetTextStrip(el)), None)

ExtractItems(html, base_url, attr) ==
    SeqMap(LAMBDA el : ExtractOne(el, base_url, attr), Select(html))

\* HTMLParser.extract_by_selector_attr: values of the attribute, falsy ones skipped
ExtractBySelectorAttr(html, attr) ==
    SeqMap(LAMBDA el : ElGet(el, attr)[1],
           SelectSeq(Select(html), LAMBDA el : TruthyOpt(ElGet(el, attr))))

\* summarize(items); top_domains is kept as the netloc -> count mapping it is sorted from
Summarize(its) ==
    LET target(i) == IF TruthyOpt(i.attr) THEN i.attr[1] ELSE i.source_url
        locs == {Netloc(target(its[k])) : k \in DOMAIN its}
    IN [count |-> Len(its),
        text_items |-> CountIf(LAMBDA i : TruthyOpt(i.text), its),
        attr_items |-> CountIf(LAMBDA i : TruthyOpt(i.attr), its),
        top_domains |-> [d \in locs |-> CountIf(LAMBDA i : Netloc(target(i)) = d, its)]]

\* csv.DictWriter writes None as the empty field
CsvField(o) == IF o = None THEN EmptyStr ELSE o[1]

CsvRow(it) ==
    [source_url |-> it.source_url, text |-> CsvField(it.text), attr |-> CsvField(it.attr)]

\* the file save_items leaves at out_path
SavedFile(its, fmt) ==
    IF fmt = "csv"
    THEN [format |-> "csv", header |-> <<"source_url", "text", "attr">>,
          rows |-> SeqMap(CsvRow, its)]
    ELSE [format |-> "json", header |-> <<>>, rows |-> its]

(***************************************************************************)
(* The robots gate.  Fetcher._robots is None or the RobotFileParser that   *)
(* read() filled: disallow_all / allow_all (HTTP errors), last_checked     *)
(* (set by parse) and the path prefixes the parsed rules disallow for the  *)
(* scraper's user agent.                                                   *)
(***************************************************************************)
RobotFileParser(disallow_all, allow_all, last_checked, disallow) ==
    [disallow_all |-> disallow_all, allow_all |-> allow_all,
     last_checked |-> last_checked, disallow |-> disallow]

RulePrefixes == {"/", "/private"}

\* what rp.read() can meet: an exception (URLError, timeout, undecodable
\* bytes), an HTTP error status, a body with no line the parser understands
\* (it skips such lines and is left without rules), or a body that parses to
\* rules for the scraper's user agent
RobotsOutcomes ==
    {[kind |-> k, disallow |-> {}] :
        k \in {"raised", "http401", "http404", "http503", "unparsable"}}
    \cup {[kind |-> "parsed", disallow |-> d] : d \in (SUBSET RulePrefixes) \ {{}}}

\* rule.applies_to / allowance: a Disallow prefix matches the path
PathHasPrefix(path, prefix) == prefix = "/" \/ prefix = path

\* RobotFileParser.can_fetch(user_agent, url)
CanFetch(rp, u) ==
    IF rp.disallow_all THEN FALSE
    ELSE IF rp.allow_all THEN TRUE
    ELSE IF ~rp.last_checked THEN FALSE
    ELSE LET path == IF u.path = "" THEN "/" ELSE u.path
         IN ~\E pre \in rp.disallow : PathHasPrefix(path, pre)

\* a variant of _init_robots that keeps the unread parser when read() raises
InitRobotsKeepParser(outcome) ==
    CASE outcome.kind = "raised" -> Some(RobotFileParser(FALSE, FALSE, FALSE, {}))
      [] outcome.kind = "http401" -> Some(RobotFileParser(TRUE, FALSE, FALSE, {}))
      [] outcome.kind = "http404" -> Some(RobotFileParser(FALSE, TRUE, FALSE, {}))
      [] outcome.kind = "http503" -> Some(RobotFileParser(FALSE, FALSE, FALSE, {}))
      [] OTHER -> Some(RobotFileParser(FALSE, FALSE, TRUE, outcome.disallow))

\* Fetcher._init_robots: the value of self._robots after rp.read()
InitRobots(outcome) ==
    CASE outcome.kind = "raised" -> None
      [] outcome.kind = "http401" -> Some(RobotFileParser(TRUE, FALSE, FALSE, {}))
      [] outcome.kind = "http404" -> Some(RobotFileParser(FALSE, TRUE, FALSE, {}))
      [] outcome.kind = "http503" -> Some(RobotFileParser(FALSE, FALSE, FALSE, {}))
      [] OTHER -> Some(RobotFileParser(FALSE, FALSE, TRUE, outcome.disallow))

\* Fetcher.allowed
Allowed(rb, u) == IF rb = None THEN TRUE ELSE CanFetch(rb[1], u)

(***************************************************************************)
(* The retrying transport: Retry(total=5, status_forcelist=[...],          *)
(* allowed_methods=["GET", "HEAD"]) mounted on the session.                *)
(***************************************************************************)
RetryTotalSix == 3 + 3

RetryTotal == 5

StatusForcelist == {429, 500, 502, 503, 504}

\* urllib3 Retry.RETRY_AFTER_STATUS_CODES
RetryAfterStatusCodes == {413, 429, 503}

RedirectStati == {301, 302, 303, 307, 308}

\* urllib3 Retry.is_retry for a GET: forced by the status, or asked for by a
\* Retry-After header while retries are left
IsRetry(status, has_retry_after, total) ==
    \/ status \in StatusForcelist
    \/ (total # 0 /\ has_retry_after /\ status \in RetryAfterStatusCodes)

\* the responses the server can give
Statuses == {200, 302, 404, 413, 429, 500, 503}

Node(sel, href, title, text) ==
    [sel |-> sel, attrs |-> [a \in AttrNames |-> IF a = "href" THEN href ELSE title],
     text |-> text]

\* the documents the server can answer with
Bodies ==
    {<<>>,
     <<Node(TRUE, Some(Text("/p")), None, Text(" x "))>>,
     <<Node(TRUE, None, Some(Text("t")), Text(" x "))>>,
     <<Node(TRUE, Some(OtherUrl), None, Text("")), Node(FALSE, Some(Text("/p")), None, Text(" x "))>>}

Responses ==
    {[status |-> 200, retry_after |-> FALSE, location |-> EmptyStr, body |-> b] : b \in Bodies}
    \cup {[status |-> 302, retry_after |-> FALSE, location |-> l, body |-> <<>>] :
            l \in {PrivateUrl, OtherUrl}}
    \cup {[status |-> st, retry_after |-> ra, location |-> EmptyStr, body |-> <<>>] :
            st \in {404, 413, 429, 500, 503}, ra \in BOOLEAN}

(***************************************************************************)
(* main(): one CLI run.                                                    *)
(***************************************************************************)
ArgUrls == {EmptyStr, SiteUrl, PrivateUrl}

MainAttrArgs == {None, Some(Text("href"))}

Args ==
    [url : ArgUrls, selector_ok : BOOLEAN, attr : MainAttrArgs, format : {"csv", "json"}]

File(exists, writes, content) ==
    [exists |-> exists, writes |-> writes, content |-> content]

Init ==
    /\ pc = "start"
    /\ args \in Args
    /\ robots = None
    /\ robotsLoad = "none"
    /\ robotsReads = 0
    /\ url = EmptyStr
    /\ gate = <<>>
    /\ requests = 0
    /\ requested = {}
    /\ reqUrl = EmptyStr
    /\ lastResp = None
    /\ allForced = TRUE
    /\ retries = 0
    /\ redirects = 0
    /\ resp = None
    /\ err = ""
    /\ items = <<>>
    /\ outFile \in {File(FALSE, 0, None), File(TRUE, 0, Some("old"))}
    /\ printed = None
    /\ input = <<>>
    /\ op = "none"
    /\ ret = <<>>

\* Fetcher.__init__ with base_url = args.url
FetcherInit ==
    /\ pc = "start"
    /\ IF Truthy(args.url)
       THEN \E outcome \in RobotsOutcomes :
                /\ robots' = InitRobots(outcome)
                /\ robotsLoad' = outcome.kind
                /\ robotsReads' = robotsReads + 1
       ELSE UNCHANGED <<robots, robotsLoad, robotsReads>>
    /\ pc' = "constructed"
    /\ UNCHANGED <<args, url, gate, transport, resp, err, items, outFile, printed, fnVars>>

\* a variant of the head of Fetcher.get that requests the URL whatever the gate says
GetUngated ==
    /\ pc = "constructed"
    /\ LET u == IF Truthy(args.url) THEN Urljoin(args.url, args.url) ELSE args.url
       IN /\ url' = u
          /\ reqUrl' = u
          /\ gate' = Append(gate, [url |-> u, allowed |-> Allowed(robots, u)])
          /\ pc' = "requesting"
          /\ retries' = RetryTotal
          /\ UNCHANGED err
    /\ UNCHANGED <<args, robots, robotsLoad, robotsReads, requests, requested, lastResp,
                   allForced, redirects, resp, items, outFile, printed, fnVars>>

\* Fetcher.get up to the request: urljoin, then the robots gate
Get ==
    /\ pc = "constructed"
    /\ LET u == IF Truthy(args.url) THEN Urljoin(args.url, args.url) ELSE args.url
       IN /\ url' = u
          /\ gate' = Append(gate, [url |-> u, allowed |-> Allowed(robots, u)])
          /\ IF ~Allowed(robots, u)
             THEN /\ pc' = "raised"
                  /\ err' = "PermissionError"
                  /\ UNCHANGED <<retries, reqUrl>>
             ELSE /\ pc' = "requesting"
                  /\ reqUrl' = u
                  /\ retries' = RetryTotal
                  /\ UNCHANGED err
    /\ UNCHANGED <<args, robots, robotsLoad, robotsReads, requests, requested, lastResp,
                   allForced, redirects, resp, items, outFile, printed, fnVars>>

\* session.get on a URL without a scheme: requests raises MissingSchema before any I/O
SessionGetInvalid ==
    /\ pc = "requesting"
    /\ ~Truthy(reqUrl)
    /\ pc' = "raised"
    /\ err' = "MissingSchema"
    /\ UNCHANGED <<args, robots, robotsLoad, robotsReads, url, gate, transport, resp,
                   items, outFile, printed, fnVars>>

\* one HTTP exchange inside session.get: the request, the server's answer and
\* what the adapter (urllib3 retries) and the session (redirects) do with it
Send ==
    /\ pc = "requesting"
    /\ Truthy(reqUrl)
    /\ \E r \in Responses :
        LET retry == IsRetry(r.status, r.retry_after, retries)
            redirect == ~retry /\ r.status \in RedirectStati
        IN /\ requests' = requests + 1
           /\ requested' = requested \cup {reqUrl}
           /\ lastResp' = Some([status |-> r.status, retry_after |-> r.retry_after])
           /\ allForced' = (allForced /\ r.status \in StatusForcelist)
           /\ IF retry
              THEN \* retries.increment(): MaxRetryError once total drops below 0
                   IF retries - 1 < 0
                   THEN /\ pc' = "raised"
                        /\ err' = "RetryError"
                        /\ UNCHANGED <<retries, redirects, resp, reqUrl>>
                   ELSE /\ retries' = retries - 1
                        /\ UNCHANGED <<pc, err, redirects, resp, reqUrl>>
              ELSE IF redirect
              THEN \* Session.resolve_redirects: a new send with fresh retries
                   IF redirects >= MaxRedirects
                   THEN /\ pc' = "raised"
                        /\ err' = "TooManyRedirects"
                        /\ UNCHANGED <<retries, redirects, resp, reqUrl>>
                   ELSE /\ redirects' = redirects + 1
                        /\ reqUrl' = r.location
                        /\ retries' = RetryTotal
                        /\ UNCHANGED <<pc, err, resp>>
              ELSE /\ resp' = Some(r)
                   /\ pc' = "responded"
                   /\ UNCHANGED <<err, retries, redirects, reqUrl>>
    /\ UNCHANGED <<args, robots, robotsLoad, robotsReads, url, gate, items, outFile,
                   printed, fnVars>>

\* resp.raise_for_status() and the return of Fetcher.get
RaiseForStatus ==
    /\ pc = "responded"
    /\ IF resp[1].status >= 400
       THEN pc' = "raised" /\ err' = "HTTPError"
       ELSE pc' = "fetched" /\ UNCHANGED err
    /\ UNCHANGED <<args, robots, robotsLoad, robotsReads, url, gate, transport, resp,
                   items, outFile, printed, fnVars>>

\* items = extract_items(resp.text, args.url, args.selector, args.attr);
\* soup.select raises on a selector it cannot parse
Extract ==
    /\ pc = "fetched"
    /\ IF args.selector_ok
       THEN /\ items' = ExtractItems(resp[1].body, args.url, args.attr)
            /\ pc' = "extracted"
            /\ UNCHANGED err
       ELSE /\ pc' = "raised"
            /\ err' = "SelectorSyntaxError"
            /\ UNCHANGED items
    /\ UNCHANGED <<args, robots, robotsLoad, robotsReads, url, gate, transport, resp,
                   outFile, printed, fnVars>>

\* a variant of save_items that also runs when main() is left by an exception
SaveItemsAlways ==
    /\ pc \in {"extracted", "raised"}
    /\ outFile.writes = 0
    /\ outFile' = File(TRUE, outFile.writes + 1, Some(SavedFile(items, args.format)))
    /\ pc' = IF pc = "extracted" THEN "saved" ELSE pc
    /\ UNCHANGED <<args, robots, robotsLoad, robotsReads, url, gate, transport, resp,
                   err, items, printed, fnVars>>

\* save_items(items, Path(args.out), fmt=args.format)
SaveItems ==
    /\ pc = "extracted"
    /\ outFile' = File(TRUE, outFile.writes + 1, Some(SavedFile(items, args.format)))
    /\ pc' = "saved"
    /\ UNCHANGED <<args, robots, robotsLoad, robotsReads, url, gate, transport, resp,
                   err, items, printed, fnVars>>

\* stats = summarize(items); print(json.dumps(stats)); return 0
PrintSummary ==
    /\ pc = "saved"
    /\ printed' = Some(Summarize(items))
    /\ pc' = "done"
    /\ UNCHANGED <<args, robots, robotsLoad, robotsReads, url, gate, transport, resp,
                   err, items, outFile, fnVars>>

Next ==
    \/ FetcherInit
    \/ Get
    \/ SessionGetInvalid
    \/ Send
    \/ RaiseForStatus
    \/ Extract
    \/ SaveItems
    \/ PrintSummary

Spec == Init /\ [][Next]_vars


(***************************************************************************)
(* Claims about the CLI run (Spec).                                        *)
(***************************************************************************)
Urls == {SiteUrl, PrivateUrl, OtherUrl}

\* C1: when Fetcher.allowed denies the URL Fetcher.get is about to request,
\* get fails with PermissionError and the call issues no request for that
\* URL (nor any other); once a request has been issued, the gate has
\* answered "allowed" for the URL of the call, and that URL was requested.
C1_GateBeforeRequest ==
    /\ \A i \in DOMAIN gate :
         ~gate[i].allowed =>
            /\ pc = "raised"
            /\ err = "PermissionError"
            /\ requests = 0
            /\ gate[i].url \notin requested
    /\ requests > 0 =>
         /\ gate = <<[url |-> url, allowed |-> TRUE]>>
         /\ url \in requested

C1_Witness ==
    /\ gate # <<>>
    /\ ~gate[1].allowed
    /\ gate[1].url = PrivateUrl
    /\ err = "PermissionError"

\* C2 as stated: while every response has a status of the forcelist, the call
\* issues at most 5 requests in total, the first attempt included.
C2_AtMostFiveRequests == allForced => requests <= 5

\* C2, amended: while every response has a status of the forcelist, the call
\* issues at most 6 requests (the first attempt and 5 retries), is still
\* retrying before the sixth, and ends with RetryError at the sixth; and a
\* request follows a response only if its status is in the forcelist, or is
\* 413 with a Retry-After header, or is a redirect.
C2_AtMostSixRequests ==
    /\ allForced => requests <= 6
    /\ (allForced /\ requests = 6) => (pc = "raised" /\ err = "RetryError")
    /\ (allForced /\ requests \in 1..5) => pc = "requesting"
    /\ (pc = "requesting" /\ lastResp # None) =>
         \/ lastResp[1].status \in StatusForcelist
         \/ (lastResp[1].status = 413 /\ lastResp[1].retry_after)
         \/ lastResp[1].status \in RedirectStati

C2_Witness ==
    /\ allForced
    /\ requests = 6
    /\ err = "RetryError"

\* C3: when the run is left by an exception (robots denial, an HTTP failure,
\* a failed extraction), nothing is written: the output file is as it was and
\* no summary is printed, and the run takes no further step; the file is
\* written only after the fetch and the extraction both completed, and then
\* holds the extracted items.
C3_NoOutputOnFailure ==
    /\ (err # "") <=> (pc = "raised")
    /\ pc = "raised" =>
         /\ outFile.writes = 0
         /\ outFile.content \in {None, Some("old")}
         /\ printed = None
         /\ ~ENABLED Next
    /\ (outFile.writes > 0 \/ printed # None) =>
         /\ pc \in {"saved", "done"}
         /\ resp # None
         /\ resp[1].status < 400
         /\ args.selector_ok
         /\ outFile = File(TRUE, 1, Some(SavedFile(items, args.format)))

C3_Witness ==
    /\ pc = "raised"
    /\ err = "RetryError"
    /\ outFile = File(TRUE, 0, Some("old"))

MainIdle ==
    /\ pc = "idle"
    /\ args = [url |-> EmptyStr, selector_ok |-> TRUE, attr |-> None, format |-> "csv"]
    /\ robots = None
    /\ robotsLoad = "none"
    /\ robotsReads = 0
    /\ url = EmptyStr
    /\ gate = <<>>
    /\ requests = 0
    /\ requested = {}
    /\ reqUrl = EmptyStr
    /\ lastResp = None
    /\ allForced = TRUE
    /\ retries = 0
    /\ redirects = 0
    /\ resp = None
    /\ err = ""
    /\ items = <<>>
    /\ outFile = File(FALSE, 0, None)
    /\ printed = None

(***************************************************************************)
(* SpecExtract: extract_items and HTMLParser.extract_by_selector_attr.     *)
(***************************************************************************)
AttrArgs == {None, Some(EmptyStr), Some(Text("href")), Some(Text("title"))}

InitExtract ==
    /\ MainIdle
    /\ input \in [html : SeqsUpTo(Nodes, MaxNodes), base_url : {SiteUrl, PrivateUrl},
                  attr : AttrArgs]
    /\ op = "none"
    /\ ret = <<>>

CallExtractItems ==
    /\ op = "none"
    /\ op' = "extract_items"
    /\ ret' = ExtractItems(input.html, input.base_url, input.attr)
    /\ UNCHANGED <<mainVars, input>>

\* HTMLParser(html, base_url).extract_by_selector_attr(selector, attr); attr is a str
CallExtractBySelectorAttr ==
    /\ op = "none"
    /\ input.attr # None
    /\ op' = "extract_by_selector_attr"
    /\ ret' = ExtractBySelectorAttr(input.html, input.attr[1])
    /\ UNCHANGED <<mainVars, input>>

NextExtract ==
    \/ CallExtractItems
    \/ CallExtractBySelectorAttr

SpecExtract == InitExtract /\ [][NextExtract]_vars

\* the matched elements that carry the attribute
Carrying(html, attr) == SelectSeq(Select(html), LAMBDA el : ElGet(el, attr[1]) # None)

\* C5: extract_items with an attr name returns one item per matched element
\* that carries the attribute, none for a matched element that lacks it;
\* every item has attr populated, in document order.
C5_LackingAttrSkipped ==
    (op = "extract_items" /\ TruthyOpt(input.attr)) =>
        /\ Len(ret) = Len(Carrying(input.html, input.attr))
        /\ \A i \in DOMAIN ret : ret[i].attr # None

\* C10: no item returned by extract_items has both text and attr populated;
\* with an attr name given every item has text absent, and without one (the
\* code takes an empty name as none) every item has attr absent and its
\* text populated.
C10_NeverBothPopulated ==
    op = "extract_items" =>
        \A i \in DOMAIN ret :
            /\ ~(ret[i].text # None /\ ret[i].attr # None)
            /\ TruthyOpt(input.attr) => ret[i].text = None
            /\ ~TruthyOpt(input.attr) => (ret[i].attr = None /\ ret[i].text # None)

C10_Witness ==
    /\ op = "extract_items"
    /\ input.attr = Some(Text("href"))
    /\ Len(ret) = 2
    /\ ret[1].attr = Some(Str("https", "example.com", "/p"))
    /\ ret[2].attr = Some(OtherUrl)
    /\ ret[1].text = None

(***************************************************************************)
(* SpecTable: HTMLParser.extract_table.  A table is given by what          *)
(* select_one finds (None: no element matches), its thead (None: the       *)
(* table has none) and the rows after it; a row is its sequence of cells,  *)
(* each a th or a td with its stripped text.                               *)
(***************************************************************************)
CellTexts == {"a", "b"}

Cells == [tag : {"th", "td"}, text : CellTexts]

Rows == SeqsUpTo(Cells, MaxCells)

Theads == {None} \cup {Some(rs) : rs \in SeqsUpTo(Rows, 1)}

Tables ==
    {None} \cup {Some([thead |-> h, body |-> b]) : h \in Theads, b \in SeqsUpTo(Rows, MaxRows)}

\* table.find_all("tr"): the rows of the thead, then the others
FindAllTr(t) == (IF t.thead = None THEN <<>> ELSE t.thead[1]) \o t.body

RECURSIVE Flatten(_)
Flatten(ss) == IF ss = <<>> THEN <<>> ELSE Head(ss) \o Flatten(Tail(ss))

\* [x.get_text(strip=True) for x in node.find_all(["th", "td"])]
CellTextsOf(cells) == SeqMap(LAMBDA c : c.text, cells)

\* row.find_all("td")
FindAllTd(row) == SelectSeq(row, LAMBDA c : c.tag = "td")

\* dict(zip(headers, texts)): a later equal label overwrites an earlier one
DictZip(headers, texts) ==
    LET n == IF Len(headers) < Len(texts) THEN Len(headers) ELSE Len(texts)
        last(h) == CHOOSE i \in 1..n : headers[i] = h /\ \A j \in (i + 1)..n : headers[j] # h
    IN [h \in {headers[i] : i \in 1..n} |-> texts[last(h)]]

\* the loop over the data rows
RECURSIVE TableRecords(_, _)
TableRecords(headers, rows) ==
    IF rows = <<>> THEN <<>>
    ELSE LET cells == FindAllTd(Head(rows))
         IN (IF Len(cells) = Len(headers)
             THEN <<DictZip(headers, CellTextsOf(cells))>>
             ELSE <<>>) \o TableRecords(headers, Tail(rows))

\* the header labels extract_table derives
TableHeaders(t) ==
    IF t.thead # None THEN CellTextsOf(Flatten(t.thead[1]))
    ELSE CellTextsOf(Head(FindAllTr(t)))

ExtractTable(table) ==
    IF table = None THEN <<>>
    ELSE LET t == table[1]
             rows == FindAllTr(t)
         IN IF rows = <<>> THEN <<>>
            ELSE IF t.thead # None
                 THEN TableRecords(TableHeaders(t), rows)
                 ELSE TableRecords(TableHeaders(t), Tail(rows))

InitTable ==
    /\ MainIdle
    /\ input \in [table : Tables]
    /\ op = "none"
    /\ ret = <<>>

CallExtractTable ==
    /\ op = "none"
    /\ op' = "extract_table"
    /\ ret' = ExtractTable(input.table)
    /\ UNCHANGED <<mainVars, input>>

NextTable == CallExtractTable

SpecTable == InitTable /\ [][NextTable]_vars

\* the rows after the rows that supplied the header labels
RowsAfterHeader(t) == IF t.thead # None THEN t.body ELSE Tail(FindAllTr(t))

\* C8: extract_table never emits the row that supplied the header labels,
\* with a thead as without: the records are those of the rows after the
\* header whose cell count equals the header count, and no others.
C8_HeaderRowNotData ==
    (/\ op = "extract_table"
     /\ input.table # None
     /\ FindAllTr(input.table[1]) # <<>>
     /\ TableHeaders(input.table[1]) # <<>>) =>
        ret = TableRecords(TableHeaders(input.table[1]), RowsAfterHeader(input.table[1]))

(***************************************************************************)
(* Records of analysis.py: a record (dict) is a function from the keys it  *)
(* has to Python values; a Python value is None, an int or a str.          *)
(***************************************************************************)
PyNone == [t |-> "none", n |-> 0, s |-> ""]

PyInt(n) == [t |-> "int", n |-> n, s |-> ""]

PyStr(s) == [t |-> "str", n |-> 0, s |-> s]

Absent == [t |-> "absent", n |-> 0, s |-> ""]

\* the dict with the given value per key, a key of value Absent left out
Dict(keys, val(_)) == [k \in {x \in keys : val(x) # Absent} |-> val(k)]

HasKey(item, key) == key \in DOMAIN item

\* item.get(key)
DictGet(item, key) == IF HasKey(item, key) THEN item[key] ELSE PyNone

RECURSIVE Orderings(_)
\* the sequences that list each element of the set once
Orderings(S) ==
    IF S = {} THEN {<<>>}
    ELSE UNION {{<<x>> \o p : p \in Orderings(S \ {x})} : x \in S}

(***************************************************************************)
(* DataValidator.remove_duplicates and DataAggregator.filter_data.         *)
(***************************************************************************)
\* a variant of the keyed loop without the `key in item` test: a record
\* lacking the key is kept
DedupKeepingKeyless(data, key, seen) ==
    LET RECURSIVE Loop(_, _)
        Loop(rest, sn) ==
            IF rest = <<>> THEN <<>>
            ELSE LET item == Head(rest)
                 IN IF ~HasKey(item, key) THEN <<item>> \o Loop(Tail(rest), sn)
                    ELSE IF item[key] \notin sn
                    THEN <<item>> \o Loop(Tail(rest), sn \cup {item[key]})
                    ELSE Loop(Tail(rest), sn)
    IN Loop(data, seen)

\* the loop of remove_duplicates with a key: `seen` and `unique`
DedupByKey(data, key, seen) ==
    LET RECURSIVE Loop(_, _)
        Loop(rest, sn) ==
            IF rest = <<>> THEN <<>>
            ELSE LET item == Head(rest)
                 IN IF HasKey(item, key) /\ item[key] \notin sn
                    THEN <<item>> \o Loop(Tail(rest), sn \cup {item[key]})
                    ELSE Loop(Tail(rest), sn)
    IN Loop(data, seen)

\* what remove_duplicates(data, key) can return: with a truthy key the
\* list of first occurrences; otherwise the distinct records, in the
\* arbitrary order of a set
RemoveDuplicates(data, key) ==
    IF key # None /\ key[1] # ""
    THEN {DedupByKey(data, key[1], {})}
    ELSE Orderings(Range(data))

\* the callables given to filter_data: lambda v: v is None, and bool
Predicates == {"is_none", "truthy"}

ApplyPredicate(p, v) ==
    IF p = "is_none" THEN v = PyNone
    ELSE v \notin {PyNone, PyInt(0), PyStr("")}

Literal(v) == [callable |-> FALSE, lit |-> v, pred |-> ""]

Callable(p) == [callable |-> TRUE, lit |-> PyNone, pred |-> p]

FilterData(data, key, value) ==
    IF value.callable
    THEN SelectSeq(data, LAMBDA item : HasKey(item, key) /\ ApplyPredicate(value.pred, item[key]))
    ELSE SelectSeq(data, LAMBDA item : DictGet(item, key) = value.lit)

RecordKeys == {"id", "v"}

IdValues == {Absent, PyNone, PyInt(1), PyInt(2)}

VValues == {Absent, PyStr("a")}

Records ==
    {Dict(RecordKeys, LAMBDA k : IF k = "id" THEN i ELSE v) : i \in IdValues, v \in VValues}

KeyArgs == {None, Some(""), Some("id"), Some("v")}

FilterArgs ==
    {Literal(PyNone), Literal(PyInt(1)), Literal(PyStr("a"))}
    \cup {Callable(p) : p \in Predicates}

InitRecords ==
    /\ MainIdle
    /\ input \in [data : SeqsUpTo(Records, MaxRecords), key : KeyArgs, value : FilterArgs]
    /\ op = "none"
    /\ ret = <<>>

CallRemoveDuplicates ==
    /\ op = "none"
    /\ op' = "remove_duplicates"
    /\ ret' \in RemoveDuplicates(input.data, input.key)
    /\ UNCHANGED <<mainVars, input>>

\* filter_data takes a str key
CallFilterData ==
    /\ op = "none"
    /\ input.key # None
    /\ op' = "filter_data"
    /\ ret' = FilterData(input.data, input.key[1], input.value)
    /\ UNCHANGED <<mainVars, input>>

NextRecords ==
    \/ CallRemoveDuplicates
    \/ CallFilterData

SpecRecords == InitRecords /\ [][NextRecords]_vars

\* the records of data at the indices that satisfy Keep, in input order
RECURSIVE KeepIndices(_, _, _)
KeepIndices(data, Keep(_), i) ==
    IF i > Len(data) THEN <<>>
    ELSE (IF Keep(i) THEN <<data[i]>> ELSE <<>>) \o KeepIndices(data, Keep, i + 1)

\* record i has the key with the value an earlier record has for it
RepeatsEarlier(data, key, i) ==
    /\ HasKey(data[i], key)
    /\ \E j \in 1..(i - 1) : HasKey(data[j], key) /\ data[j][key] = data[i][key]

\* C6 as stated: remove_duplicates(records, key) returns the input with
\* exactly the records removed whose value of key equals that of an earlier
\* record, and nothing else is dropped.
C6_OnlyLaterDuplicatesRemoved ==
    (op = "remove_duplicates" /\ input.key \notin {None, Some("")}) =>
        ret = KeepIndices(input.data,
                          LAMBDA i : ~RepeatsEarlier(input.data, input.key[1], i), 1)

\* C6, amended: with a non-empty key, remove_duplicates returns the input
\* with exactly the records removed that lack the key or whose value of key
\* equals that of an earlier record; the output is in input order and no
\* two of its records share a value of key.
C6_KeylessAndLaterDuplicatesRemoved ==
    (op = "remove_duplicates" /\ input.key \notin {None, Some("")}) =>
        LET key == input.key[1]
        IN /\ ret = KeepIndices(input.data,
                                LAMBDA i : /\ HasKey(input.data[i], key)
                                           /\ ~RepeatsEarlier(input.data, key, i), 1)
           /\ \A i \in DOMAIN ret : HasKey(ret[i], key)
           /\ \A i, j \in DOMAIN ret : i # j => ret[i][key] # ret[j][key]

C6_Witness ==
    /\ op = "remove_duplicates"
    /\ input.key = Some("id")
    /\ Len(input.data) = 3
    /\ ~HasKey(input.data[1], "id")
    /\ HasKey(input.data[2], "id")
    /\ input.data[2]["id"] = PyInt(1)
    /\ HasKey(input.data[3], "id")
    /\ input.data[3]["id"] = PyInt(1)
    /\ input.data[3] # input.data[2]
    /\ ret = <<input.data[2]>>

\* C7: filter_data never returns a record that lacks the key: every record
\* returned has the key, and its value equals the literal or satisfies the
\* predicate; the result is the matching records in input order.
C7_KeylessNeverMatch ==
    op = "filter_data" =>
        LET key == input.key[1]
            matches(item) ==
                /\ HasKey(item, key)
                /\ IF input.value.callable
                   THEN ApplyPredicate(input.value.pred, item[key])
                   ELSE item[key] = input.value.lit
        IN /\ \A i \in DOMAIN ret : matches(ret[i])
           /\ ret = SelectSeq(input.data, matches)

(***************************************************************************)
(* StatisticalAnalyzer.  A float is kept as a fraction num/den: den > 0    *)
(* for a finite number, 1/0 and -1/0 for the infinities, 0/0 for NaN.      *)
(***************************************************************************)
Float(num, den) == [num |-> num, den |-> den]

NaN == Float(0, 0)

Inf == Float(1, 0)

NegInf == Float(-1, 0)

IsNaN(x) == x.den = 0 /\ x.num = 0

IsFinite(x) == x.den > 0

\* x < y of floats: false when either is NaN
FLt(x, y) ==
    IF IsNaN(x) \/ IsNaN(y) THEN FALSE
    ELSE IF x.den = 0 \/ y.den = 0
    THEN (IF x.den = 0 THEN x.num ELSE 0) < (IF y.den = 0 THEN y.num ELSE 0)
    ELSE x.num * y.den < y.num * x.den

\* x == y of floats
FEq(x, y) ==
    IF IsNaN(x) \/ IsNaN(y) THEN FALSE
    ELSE IF x.den = 0 \/ y.den = 0 THEN x = y
    ELSE x.num * y.den = y.num * x.den

\* x <= y of floats
FLe(x, y) == FLt(x, y) \/ FEq(x, y)

\* x + y of floats
FAdd(x, y) ==
    IF IsNaN(x) \/ IsNaN(y) THEN NaN
    ELSE IF x.den = 0 /\ y.den = 0 THEN (IF x = y THEN x ELSE NaN)
    ELSE IF x.den = 0 THEN x
    ELSE IF y.den = 0 THEN y
    ELSE Float(x.num * y.den + y.num * x.den, x.den * y.den)

\* x / n of a float and a positive int
FDiv(x, n) == IF x.den = 0 THEN x ELSE Float(x.num, x.den * n)

\* the strings float() parses, with their values
NumericStrings == {"2", "nan", "inf", "-inf"}

ParseFloat(s) ==
    CASE s = "2" -> Float(2, 1)
      [] s = "nan" -> NaN
      [] s = "inf" -> Inf
      [] s = "-inf" -> NegInf

\* float(v) succeeds: no TypeError (None), no ValueError (another string)
Coercible(v) == v.t = "int" \/ (v.t = "str" /\ v.s \in NumericStrings)

\* float(v)
ToFloat(v) == IF v.t = "int" THEN Float(v.n, 1) ELSE ParseFloat(v.s)

\* StatisticalAnalyzer.get_numeric_values
GetNumericValues(data, key) ==
    SeqMap(LAMBDA item : ToFloat(item[key]),
           SelectSeq(data, LAMBDA item : HasKey(item, key) /\ Coercible(item[key])))

RECURSIVE FSum(_)
\* sum(values), from 0
FSum(values) ==
    IF values = <<>> THEN Float(0, 1)
    ELSE FAdd(FSum(SubSeq(values, 1, Len(values) - 1)), values[Len(values)])

\* min(values): the first value no later one is less than
RECURSIVE MinFrom(_, _)
MinFrom(cur, rest) ==
    IF rest = <<>> THEN cur
    ELSE MinFrom(IF FLt(Head(rest), cur) THEN Head(rest) ELSE cur, Tail(rest))

\* max(values)
RECURSIVE MaxFrom(_, _)
MaxFrom(cur, rest) ==
    IF rest = <<>> THEN cur
    ELSE MaxFrom(IF FLt(cur, Head(rest)) THEN Head(rest) ELSE cur, Tail(rest))

\* insert x into an ascending list, after the values that are not greater
RECURSIVE InsertSorted(_, _)
InsertSorted(x, sorted) ==
    IF sorted = <<>> THEN <<x>>
    ELSE IF FLt(x, Head(sorted)) THEN <<x>> \o sorted
    ELSE <<Head(sorted)>> \o InsertSorted(x, Tail(sorted))

RECURSIVE StableSort(_)
StableSort(values) ==
    IF values = <<>> THEN <<>>
    ELSE InsertSorted(values[Len(values)], StableSort(SubSeq(values, 1, Len(values) - 1)))

\* the orders of a list
Reorderings(values) ==
    {[i \in DOMAIN values |-> values[p[i]]] : p \in Orderings(DOMAIN values)}

\* what sorted(values) can return: the ascending list; with a NaN among the
\* values `<` is no order and the result is some reordering of the list
Sorted(values) ==
    IF \E i \in DOMAIN values : IsNaN(values[i])
    THEN Reorderings(values)
    ELSE {StableSort(values)}

\* StatisticalAnalyzer.calculate_average
CalculateAverage(values) == FDiv(FSum(values), Len(values))

\* a variant of the median that forgets to halve the sum of the central pair
MedianOfUnhalved(sorted_values) ==
    LET n == Len(sorted_values)
    IN IF n % 2 = 0
       THEN FAdd(sorted_values[n \div 2], sorted_values[n \div 2 + 1])
       ELSE sorted_values[n \div 2 + 1]

\* StatisticalAnalyzer.calculate_median, from sorted_values on
MedianOf(sorted_values) ==
    LET n == Len(sorted_values)
    IN IF n % 2 = 0
       THEN FDiv(FAdd(sorted_values[n \div 2], sorted_values[n \div 2 + 1]), 2)
       ELSE sorted_values[n \div 2 + 1]

StatFields == {"count", "sum", "average", "median", "min", "max"}

\* the dict get_statistics builds
Statistics(values, sorted_values) ==
    [f \in StatFields |->
        CASE f = "count" -> Len(values)
          [] f = "sum" -> FSum(values)
          [] f = "average" -> CalculateAverage(values)
          [] f = "median" -> MedianOf(sorted_values)
          [] f = "min" -> MinFrom(Head(values), Tail(values))
          [] f = "max" -> MaxFrom(Head(values), Tail(values))]

\* what get_statistics(data, key) can return; {} is the empty function
GetStatistics(data, key) ==
    LET values == GetNumericValues(data, key)
    IN IF values = <<>> THEN {[f \in {} |-> 0]}
       ELSE {Statistics(values, sv) : sv \in Sorted(values)}

StatValues ==
    {Absent, PyNone, PyStr("abc"), PyInt(1), PyInt(4), PyStr("2"),
     PyStr("nan"), PyStr("inf"), PyStr("-inf")}

StatRecords == {Dict({"v"}, LAMBDA k : v) : v \in StatValues}

InitStats ==
    /\ MainIdle
    /\ input \in [data : SeqsUpTo(StatRecords, MaxStatRecords), key : {"v", "id"}]
    /\ op = "none"
    /\ ret = <<>>

CallGetStatistics ==
    /\ op = "none"
    /\ op' = "get_statistics"
    /\ ret' \in GetStatistics(input.data, input.key)
    /\ UNCHANGED <<mainVars, input>>

NextStats == CallGetStatistics

SpecStats == InitStats /\ [][NextStats]_vars

\* the values of key that are present and that float() accepts, as floats
CoercedValues(data, key) ==
    LET idx == {i \in DOMAIN data : HasKey(data[i], key) /\ Coercible(data[i][key])}
    IN [i \in idx |-> ToFloat(data[i][key])]

\* C9 as stated: get_statistics computes over exactly the present, coercible
\* values; count is their number; with none of them the result is the empty
\* mapping; a non-empty result has all six fields, with min <= median <= max.
C9_MinMedianMaxOrdered ==
    op = "get_statistics" =>
        LET cv == CoercedValues(input.data, input.key)
        IN /\ (DOMAIN cv = {}) <=> (DOMAIN ret = {})
           /\ DOMAIN ret # {} =>
                /\ DOMAIN ret = StatFields
                /\ ret["count"] = Cardinality(DOMAIN cv)
                /\ FLe(ret["min"], ret["median"])
                /\ FLe(ret["median"], ret["max"])

\* C9, amended: as stated, but min <= median <= max is claimed only when
\* every coerced value is a finite number; then min and max are the least
\* and the greatest of the coerced values, sum is their sum and average is
\* sum / count.
C9_OrderedWhenFinite ==
    op = "get_statistics" =>
        LET cv == CoercedValues(input.data, input.key)
        IN /\ (DOMAIN cv = {}) <=> (DOMAIN ret = {})
           /\ DOMAIN ret # {} =>
                /\ DOMAIN ret = StatFields
                /\ ret["count"] = Cardinality(DOMAIN cv)
                /\ (\A i \in DOMAIN cv : IsFinite(cv[i])) =>
                     /\ FLe(ret["min"], ret["median"])
                     /\ FLe(ret["median"], ret["max"])
                     /\ \A i \in DOMAIN cv : FLe(ret["min"], cv[i]) /\ FLe(cv[i], ret["max"])
                     /\ \E i \in DOMAIN cv : FEq(ret["min"], cv[i])
                     /\ \E i \in DOMAIN cv : FEq(ret["max"], cv[i])
                     /\ FEq(FDiv(ret["sum"], ret["count"]), ret["average"])

C9_Witness ==
    /\ op = "get_statistics"
    /\ input.key = "v"
    /\ Len(input.data) = 3
    /\ input.data[1] = Dict({"v"}, LAMBDA k : PyStr("abc"))
    /\ input.data[2] = Dict({"v"}, LAMBDA k : PyInt(4))
    /\ input.data[3] = Dict({"v"}, LAMBDA k : PyStr("2"))
    /\ ret["count"] = 2
    /\ ret["median"] = Float(6, 2)
    /\ ret["min"] = Float(2, 1)
    /\ ret["max"] = Float(4, 1)

(***************************************************************************)
(* SpecExport: DataExporter.to_csv and DataExporter.to_json, applied one   *)
(* after the other to one path.  outFile is the file at that path, input   *)
(* the list given to the latest export, op the latest exporter, ret the    *)
(* exception it raised (None when it returned).                            *)
(***************************************************************************)
\* a value json cannot encode by itself (a date, a Path); s is its str()
PyObj(s) == [t |-> "obj", n |-> 0, s |-> s]

\* str(v)
PyStrOf(v) ==
    CASE v.t = "none" -> "None"
      [] v.t = "int" -> ToString(v.n)
      [] OTHER -> v.s

\* the field csv.writer writes for a value: None as the empty field, any
\* other value as str(v)
CsvStr(v) == IF v.t = "none" THEN "" ELSE PyStrOf(v)

\* the order in which a record lists the keys it has
ExportKeyOrder == <<"id", "v">>

\* list(item.keys())
KeysOf(item) == SelectSeq(ExportKeyOrder, LAMBDA k : HasKey(item, k))

\* the keys for which DictWriter raises ValueError (extrasaction="raise")
Extras(item, fieldnames) == DOMAIN item \ Range(fieldnames)

\* DictWriter._dict_to_list: one field per fieldname, "" for a missing key
DictToList(item, fieldnames) ==
    [i \in DOMAIN fieldnames |->
        IF HasKey(item, fieldnames[i]) THEN CsvStr(item[fieldnames[i]]) ELSE ""]

RECURSIVE WriteRows(_, _)
\* writer.writerows(data): the rows written, up to the first record that
\* raises
WriteRows(data, fieldnames) ==
    IF data = <<>> \/ Extras(Head(data), fieldnames) # {} THEN <<>>
    ELSE <<DictToList(Head(data), fieldnames)>> \o WriteRows(Tail(data), fieldnames)

\* to_csv raises ValueError: a record has a key the first record lacks
CsvRaises(data) == \E i \in DOMAIN data : Extras(data[i], KeysOf(data[1])) # {}

\* the text of an exported file: for csv its lines, each the sequence of its
\* fields (an empty line is <<>>, a line holding one empty field is <<"">>);
\* for json the objects of the top-level array
ExportText(format, body) == [format |-> format, body |-> body]

\* to_csv with open(file_path, "a"): the lines are added to a csv file
ToCsvAppending(data, file) ==
    IF data = <<>> THEN file
    ELSE LET keys == KeysOf(data[1])
             old == IF file.content # None /\ file.content[1].format = "csv"
                    THEN file.content[1].body ELSE <<>>
         IN File(TRUE, file.writes + 1,
                 Some(ExportText("csv", old \o <<keys>> \o WriteRows(data, keys))))

\* to_csv: the file at file_path after the call; an empty list returns before
\* the file is opened
ToCsv(data, file) ==
    IF data = <<>> THEN file
    ELSE LET keys == KeysOf(data[1])
         IN File(TRUE, file.writes + 1,
                 Some(ExportText("csv", <<keys>> \o WriteRows(data, keys))))

JsonNull == [j |-> "null", n |-> 0, s |-> ""]

JsonNumber(n) == [j |-> "number", n |-> n, s |-> ""]

JsonString(s) == [j |-> "string", n |-> 0, s |-> s]

\* json.dump(..., default=str) of one value
JsonEncode(v) ==
    CASE v.t = "none" -> JsonNull
      [] v.t = "int" -> JsonNumber(v.n)
      [] v.t = "str" -> JsonString(v.s)
      [] OTHER -> JsonString(PyStrOf(v))

JsonObject(item) == [k \in DOMAIN item |-> JsonEncode(item[k])]

\* to_json: the file at file_path after the call
ToJson(data, file) ==
    File(TRUE, file.writes + 1, Some(ExportText("json", SeqMap(JsonObject, data))))

ExportIdValues == {Absent, PyNone, PyInt(1), PyObj("o")}

ExportVValues == {Absent, PyStr("a")}

ExportRecords ==
    {Dict(RecordKeys, LAMBDA k : IF k = "id" THEN i ELSE v) :
        i \in ExportIdValues, v \in ExportVValues}

InitExport ==
    /\ MainIdle
    /\ input = [data |-> <<>>]
    /\ op = "none"
    /\ ret = None

CallToCsv ==
    /\ outFile.writes < MaxExports
    /\ \E data \in SeqsUpTo(ExportRecords, MaxExportRecords) :
         /\ input' = [data |-> data]
         /\ outFile' = ToCsv(data, outFile)
         /\ ret' = IF CsvRaises(data) THEN Some("ValueError") ELSE None
    /\ op' = "to_csv"
    /\ UNCHANGED <<pc, args, robots, robotsLoad, robotsReads, url, gate, transport,
                   resp, err, items, printed>>

CallToJson ==
    /\ outFile.writes < MaxExports
    /\ \E data \in SeqsUpTo(ExportRecords, MaxExportRecords) :
         /\ input' = [data |-> data]
         /\ outFile' = ToJson(data, outFile)
    /\ ret' = None
    /\ op' = "to_json"
    /\ UNCHANGED <<pc, args, robots, robotsLoad, robotsReads, url, gate, transport,
                   resp, err, items, printed>>

NextExport ==
    \/ CallToCsv
    \/ CallToJson

SpecExport == InitExport /\ [][NextExport]_vars

\* json.loads of one value
JsonDecode(j) ==
    CASE j.j = "null" -> PyNone
      [] j.j = "number" -> PyInt(j.n)
      [] OTHER -> PyStr(j.s)

\* json.load of the file: the records, None for a JSONDecodeError
JsonLoad(text) ==
    IF text.format # "json" THEN None
    ELSE Some(SeqMap(LAMBDA o : [k \in DOMAIN o |-> JsonDecode(o[k])], text.body))

\* the lines json.dump(indent=2) writes after the first, "[]" being one line
JsonLinesAfterFirst(objects) ==
    LET RECURSIVE Lines(_)
        Lines(os) ==
            IF os = <<>> THEN 0
            ELSE (IF DOMAIN Head(os) = {} THEN 1 ELSE Cardinality(DOMAIN Head(os)) + 2)
                 + Lines(Tail(os))
    IN IF objects = <<>> THEN 0 ELSE Lines(objects) + 1

\* list(csv.DictReader(f)): the first line gives the field names, empty lines
\* are skipped, every other line is a record of strings.  Over json text the
\* first line "[" is the header and every later line a record of text.
DictReader(text) ==
    IF text.format = "json"
    THEN [i \in 1..JsonLinesAfterFirst(text.body) |-> [k \in {"["} |-> PyStr("json text")]]
    ELSE LET fieldnames == Head(text.body)
             Field(row, k) ==
                 LET i == CHOOSE i \in DOMAIN fieldnames : fieldnames[i] = k
                 IN IF i \in DOMAIN row THEN PyStr(row[i]) ELSE PyNone
         IN SeqMap(LAMBDA row : [k \in Range(fieldnames) |-> Field(row, k)],
                   SelectSeq(Tail(text.body), LAMBDA row : row # <<>>))

\* the records read back from the path with the reader of the format of the
\* latest export; None when the read fails (no such file, not json)
ReRead ==
    IF outFile.content = None THEN None
    ELSE IF op = "to_json" THEN JsonLoad(outFile.content[1])
    ELSE Some(DictReader(outFile.content[1]))

CommonKeySet(data) == \A i, j \in DOMAIN data : DOMAIN data[i] = DOMAIN data[j]

\* w is v or the string str(v)
ModuloStr(v, w) == w = v \/ w = PyStr(PyStrOf(v))

\* C11 as stated: after to_csv or to_json of any list of N >= 0 records with
\* a common key set, whatever was exported to the path before, re-reading the
\* path yields exactly N records, in order, with the same keys and the same
\* values modulo stringification.
C11_RoundTripOfEveryList ==
    (op \in {"to_csv", "to_json"} /\ CommonKeySet(input.data)) =>
        /\ ReRead # None
        /\ Len(ReRead[1]) = Len(input.data)
        /\ \A i \in DOMAIN input.data :
             /\ DOMAIN ReRead[1][i] = DOMAIN input.data[i]
             /\ \A k \in DOMAIN input.data[i] :
                  ModuloStr(input.data[i][k], ReRead[1][i][k])

\* the value read back for v: csv gives the string str(v) and the empty
\* string for None; json gives v, and str(v) for a value it cannot encode
ReadBackAs(exporter, v) ==
    CASE exporter = "to_csv" /\ v.t = "none" -> PyStr("")
      [] exporter = "to_csv" -> PyStr(PyStrOf(v))
      [] v.t = "obj" -> PyStr(v.s)
      [] OTHER -> v

\* the path read back gives the list of the latest export: as many records,
\* in order, with the same keys, the values those of ReadBackAs
LatestExportReadBack ==
    /\ ReRead # None
    /\ Len(ReRead[1]) = Len(input.data)
    /\ \A i \in DOMAIN input.data :
         /\ DOMAIN ReRead[1][i] = DOMAIN input.data[i]
         /\ \A k \in DOMAIN input.data[i] :
              ReRead[1][i][k] = ReadBackAs(op, input.data[i][k])

\* C11, amended: after to_json of any list of N >= 0 records, and after
\* to_csv of a list of N >= 1 records with a common, non-empty key set,
\* whatever was exported to the path before, re-reading the path yields
\* exactly N records, in order, with the same keys and the values of
\* ReadBackAs (csv reads None back as the empty string); to_csv of an empty
\* list leaves the path as it was.
C11_RoundTripOfWrittenList ==
    /\ []((/\ op \in {"to_csv", "to_json"}
           /\ CommonKeySet(input.data)
           /\ op = "to_csv" => (input.data # <<>> /\ DOMAIN input.data[1] # {}))
          => LatestExportReadBack)
    /\ [][(op' = "to_csv" /\ input'.data = <<>>) => outFile' = outFile]_vars

C11_Witness ==
    /\ op = "to_csv"
    /\ outFile.writes = 2
    /\ Len(input.data) = 2
    /\ input.data[1] = Dict(RecordKeys, LAMBDA k : IF k = "id" THEN PyInt(1) ELSE PyStr("a"))
    /\ input.data[2] = Dict(RecordKeys, LAMBDA k : IF k = "id" THEN PyObj("o") ELSE PyStr("a"))
    /\ ReRead = Some(<<Dict(RecordKeys, LAMBDA k : IF k = "id" THEN PyStr("1") ELSE PyStr("a")),
                       Dict(RecordKeys, LAMBDA k : IF k = "id" THEN PyStr("o") ELSE PyStr("a"))>>)

=============================================================================
